---- MODULE Spec2Model ----
(***************************************************************************)
(* A model of pygpt_net.provider.gpt.responses.Responses: the request      *)
(* builder (build), the dispatcher (send), the reply unpacker              *)
(* (unpack_response) and the eligibility gate (is_enabled).                *)
(*                                                                         *)
(* Representation of Python values:                                        *)
(*   - str fields that are only tested for None / "" are TLA+ strings,     *)
(*     with None standing for Python's None;                               *)
(*   - str values that are stripped or concatenated are sequences of       *)
(*     characters;                                                         *)
(*   - an Optional[int] (or an optional character sequence) is << >> for   *)
(*     None and << v >> for the value v;                                   *)
(*   - a dict is a function on its keys (a record); "k" \in DOMAIN d is    *)
(*     Python's `"k" in d`.                                                *)
(***************************************************************************)
EXTENDS Integers, Sequences, FiniteSets, TLC

VARIABLES
    pc,                     \* position of the modelled call
    context,                \* BridgeContext handed to send
    config,                 \* window.core.config values read by send / build
    now,                    \* time.time() during build
    counted,                \* what tokens.from_messages returns for the built messages
    input_tokens,           \* Responses.input_tokens
    audio_prev_id,          \* Responses.audio_prev_id
    audio_prev_expires_ts,  \* Responses.audio_prev_expires_ts
    prev_response_id,       \* Responses.prev_response_id
    messages,               \* the list build returned
    max_tokens,             \* send's local max_tokens after the clamp
    request,                \* keyword arguments of client.responses.create
    response,               \* what client.responses.create returned
    ctx,                    \* the CtxItem of the call
    unpack_in,              \* unpack_response: mode and reply
    log,                    \* what unpack_response wrote to window.core.debug
    gate_in,                \* is_enabled: arguments, config and controller state
    allowed,                \* is_enabled: returned value
    race                    \* send cycles that share one Responses instance

\* the variables of send other than pc and ctx, of unpack_response and of
\* is_enabled
sendVars == << context, config, now, counted, input_tokens, audio_prev_id,
               audio_prev_expires_ts, prev_response_id, messages, max_tokens,
               request, response >>

unpackVars == << unpack_in, log >>

gateVars == << gate_in, allowed >>

raceVars == << race >>

vars == << pc, ctx, sendVars, unpackVars, gateVars, raceVars >>

-----------------------------------------------------------------------------
(* Bounds of the model *)

MaxHist == 2
MaxOut == 2
MaxTokens == 4
MaxTime == 2
MaxItems == 2
MaxFuncs == 2

-----------------------------------------------------------------------------
(* Python values *)

None == "None"

NoneV == << >>

Some(v) == << v >>

\* Python truthiness of an Optional[str]
Truthy(s) == s # None /\ s # ""

\* `int(x) if x else 0` and `int(x or 0)` on an Optional[int]
IntOrZero(o) == IF o = NoneV THEN 0 ELSE o[1]

Whitespace == {" ", "\n", "\t"}

RECURSIVE LStrip(_)
LStrip(s) ==
    IF s = << >> THEN << >>
    ELSE IF Head(s) \in Whitespace THEN LStrip(Tail(s)) ELSE s

RECURSIVE RStrip(_)
RStrip(s) ==
    IF s = << >> THEN << >>
    ELSE IF s[Len(s)] \in Whitespace THEN RStrip(SubSeq(s, 1, Len(s) - 1)) ELSE s

\* str.strip()
Strip(s) == RStrip(LStrip(s))

Last(s) == s[Len(s)]

-----------------------------------------------------------------------------
(* Responses.build *)

\* str(tool_output) of a tool-output dict with keys among cmd, result
DictStr(o) ==
    LET c == IF "cmd" \in DOMAIN o THEN "'cmd': '" \o o.cmd \o "'" ELSE ""
        r == IF "result" \in DOMAIN o THEN "'result': '" \o o.result \o "'" ELSE ""
        x == IF "note" \in DOMAIN o THEN "'note': '" \o o.note \o "'" ELSE ""
        sep1 == IF c # "" /\ (r # "" \/ x # "") THEN ", " ELSE ""
        sep2 == IF r # "" /\ x # "" THEN ", " ELSE ""
    IN  "{" \o c \o sep1 \o r \o sep2 \o x \o "}"

\* the inner loop over item.extra["tool_output"] (lines 298-318): the first
\* entry that matches by command name or exposes a result, as a list of
\* zero or one function_call_output record
RECURSIVE MatchToolOutput(_, _)
MatchToolOutput(outs, tool_call) ==
    IF outs = << >> THEN << >>
    ELSE LET tool_output == Head(outs) IN
         IF "cmd" \in DOMAIN tool_output
                /\ tool_output.cmd = tool_call.function.name
         THEN << [type |-> "function_call_output",
                  call_id |-> tool_call.call_id,
                  output |-> DictStr(tool_output)] >>
         ELSE IF "result" \in DOMAIN tool_output
         THEN << [type |-> "function_call_output",
                  call_id |-> tool_call.call_id,
                  output |-> tool_output.result] >>
         ELSE MatchToolOutput(Tail(outs), tool_call)

\* one pass of the loop over item.extra["tool_calls"] (lines 292-297)
ToolCallOutput(extra, tool_call) ==
    IF "function" \notin DOMAIN tool_call THEN << >>
    ELSE IF "call_id" \notin DOMAIN tool_call
               \/ "name" \notin DOMAIN tool_call.function THEN << >>
    ELSE IF ~(Truthy(tool_call.call_id) /\ Truthy(tool_call.function.name))
    THEN << >>
    ELSE IF "tool_output" \notin DOMAIN extra THEN << >>
    ELSE MatchToolOutput(extra.tool_output, tool_call)

RECURSIVE ToolCallsOutputs(_, _)
ToolCallsOutputs(extra, calls) ==
    IF calls = << >> THEN << >>
    ELSE ToolCallOutput(extra, Head(calls)) \o ToolCallsOutputs(extra, Tail(calls))

\* a replay that looks for tool outputs in every turn, not only the last
IsLastItem_Any(items, i) == TRUE

\* `item == items[-1]`: CtxItem objects compare by identity and a history
\* holds each turn once, so the last item is the one at the last position
IsLastItem(items, i) == i = Len(items)

\* the function_call_output records of one item (lines 287-318)
ToolOutputs(item, is_last_item, native) ==
    IF is_last_item /\ native /\ DOMAIN item.extra # {}
           /\ "tool_calls" \in DOMAIN item.extra
    THEN ToolCallsOutputs(item.extra, item.extra.tool_calls)
    ELSE << >>

\* an expiry check that accepts a reference expiring at the current second
AudioValid_NotStrict(expires_ts, current_timestamp) ==
    LET audio_timestamp == IntOrZero(expires_ts)
    IN  audio_timestamp # 0 /\ audio_timestamp >= current_timestamp

\* the expiry check of an audio reference (lines 272-274 and 279-281)
AudioValid(expires_ts, current_timestamp) ==
    LET audio_timestamp == IntOrZero(expires_ts)
    IN  audio_timestamp # 0 /\ audio_timestamp > current_timestamp

\* the assistant record of one item (lines 264-285)
AssistantMsg(item, model, prev_id, prev_expires_ts, current_timestamp) ==
    LET msg == [role |-> "assistant", content |-> item.final_output] IN
    IF model.audio_mode
    THEN IF Truthy(item.audio_id)
         THEN IF AudioValid(item.audio_expires_ts, current_timestamp)
              THEN msg @@ [audio |-> [id |-> item.audio_id]]
              ELSE msg
         ELSE IF Truthy(prev_id)
         THEN IF AudioValid(prev_expires_ts, current_timestamp)
              THEN msg @@ [audio |-> [id |-> prev_id]]
              ELSE msg
         ELSE msg
    ELSE msg

\* a loop body that forgets the id of an earlier turn at a turn that does
\* not qualify
BuildItem_ForgetsOlder(st, items, i, model, native, prev_id, prev_expires_ts, current_timestamp) ==
    LET item == items[i]
        m1 == IF Truthy(item.final_input)
              THEN Append(st.messages,
                          [role |-> "user", content |-> item.final_input])
              ELSE st.messages
        has_output == Truthy(item.final_output)
        outs == ToolOutputs(item, IsLastItem(items, i), native)
        m2 == IF has_output
              THEN Append(m1, AssistantMsg(item, model, prev_id, prev_expires_ts,
                                           current_timestamp)) \o outs
              ELSE m1
        is_tool_output == IF has_output THEN outs # << >> ELSE st.is_tool_output
        prev == IF Truthy(item.msg_id) /\ (item.cmds = << >> \/ is_tool_output)
                THEN item.msg_id
                ELSE None
    IN  [messages |-> m2, is_tool_output |-> is_tool_output,
         prev_response_id |-> prev]

\* the body of `for item in items` (lines 254-323); st carries messages,
\* is_tool_output and self.prev_response_id through the loop
BuildItem(st, items, i, model, native, prev_id, prev_expires_ts, current_timestamp) ==
    LET item == items[i]
        m1 == IF Truthy(item.final_input)
              THEN Append(st.messages,
                          [role |-> "user", content |-> item.final_input])
              ELSE st.messages
        has_output == Truthy(item.final_output)
        outs == ToolOutputs(item, IsLastItem(items, i), native)
        m2 == IF has_output
              THEN Append(m1, AssistantMsg(item, model, prev_id, prev_expires_ts,
                                           current_timestamp)) \o outs
              ELSE m1
        is_tool_output == IF has_output THEN outs # << >> ELSE st.is_tool_output
        prev == IF Truthy(item.msg_id) /\ (item.cmds = << >> \/ is_tool_output)
                THEN item.msg_id
                ELSE st.prev_response_id
    IN  [messages |-> m2, is_tool_output |-> is_tool_output,
         prev_response_id |-> prev]

RECURSIVE BuildItems(_, _, _, _, _, _, _, _)
BuildItems(st, items, i, model, native, prev_id, prev_expires_ts, current_timestamp) ==
    IF i > Len(items) THEN st
    ELSE BuildItems(BuildItem(st, items, i, model, native, prev_id,
                              prev_expires_ts, current_timestamp),
                    items, i + 1, model, native, prev_id, prev_expires_ts,
                    current_timestamp)

\* ctx.get_history: the trailing turns of the history that fit the token
\* budget; fit is the number of turns the fitting policy keeps
GetHistory(history, fit) ==
    SubSeq(history, Len(history) - fit + 1, Len(history))

\* the content of the fresh prompt record (lines 327-338)
PromptContent(prompt, model) ==
    LET c0 == prompt
        c1 == IF model.image_input THEN "vision(" \o c0 \o ")" ELSE c0
        c2 == IF model.audio_input THEN "audio(" \o c1 \o ")" ELSE c1
    IN  c2

\* the fresh prompt record (lines 341-344)
PromptMsg(prompt, model) == [role |-> "user", content |-> PromptContent(prompt, model)]

\* a build that appends the fresh prompt whatever the replay emitted
Build_AlwaysPrompt(cx, cfg, prev_id, prev_expires_ts, current_timestamp, count) ==
    LET st0 == [messages |-> << >>, is_tool_output |-> FALSE,
                prev_response_id |-> None]
        items == GetHistory(cx.history, cx.fit)
        st == IF cfg.use_context
              THEN BuildItems(st0, items, 1, cx.model, cfg.native, prev_id,
                              prev_expires_ts, current_timestamp)
              ELSE st0
    IN  [messages |-> Append(st.messages, PromptMsg(cx.prompt, cx.model)),
         is_tool_output |-> st.is_tool_output,
         prev_response_id |-> st.prev_response_id,
         input_tokens |-> 0 + count]

\* Responses.build: the returned messages and the fields of self it leaves
Build(cx, cfg, prev_id, prev_expires_ts, current_timestamp, count) ==
    LET st0 == [messages |-> << >>, is_tool_output |-> FALSE,
                prev_response_id |-> None]
        items == GetHistory(cx.history, cx.fit)
        st == IF cfg.use_context
              THEN BuildItems(st0, items, 1, cx.model, cfg.native, prev_id,
                              prev_expires_ts, current_timestamp)
              ELSE st0
        msgs == IF ~st.is_tool_output
                THEN Append(st.messages, PromptMsg(cx.prompt, cx.model))
                ELSE st.messages
    IN  [messages |-> msgs,
         is_tool_output |-> st.is_tool_output,
         prev_response_id |-> st.prev_response_id,
         input_tokens |-> 0 + count]

-----------------------------------------------------------------------------
(* Responses.send *)

\* str(function['name'])
NameStr(name) == IF name = NoneV THEN << "N", "o", "n", "e" >> ELSE name[1]

\* whether function['name'] raises KeyError (line 119)
NameRaises(function) == "name" \notin DOMAIN function

\* the skip test of a function descriptor that has a name key (line 119)
SkipFunction(function) ==
    Strip(NameStr(function.name)) = << >> \/ function.name = NoneV

\* the parameter strings json.loads accepts, with the value it returns
JsonObjects == ("{}" :> << >>) @@ ("{\"type\": \"object\"}" :> [type |-> "object"])

\* a json.loads that answers an empty object where it cannot parse
JsonLoads_Lenient(s) ==
    IF s \in DOMAIN JsonObjects
    THEN [ok |-> TRUE, value |-> JsonObjects[s]]
    ELSE [ok |-> TRUE, value |-> << >>]

\* json.loads(s) (line 123): the value, or the exception
JsonLoads(s) ==
    IF s \in DOMAIN JsonObjects
    THEN [ok |-> TRUE, value |-> JsonObjects[s]]
    ELSE [ok |-> FALSE]

\* whether json.loads(s) raises
JsonRaises(s) == ~JsonLoads(s).ok

\* whether a descriptor has a parameter string to parse (line 122)
HasParams(function) == function.params # None /\ function.params # ""

\* whether the loop over the function descriptors raises (lines 118-129)
FunctionsRaise(functions) ==
    \E i \in 1..Len(functions) :
        IF NameRaises(functions[i]) THEN TRUE
        ELSE /\ ~SkipFunction(functions[i])
             /\ HasParams(functions[i])
             /\ JsonRaises(functions[i].params)

\* the tools the loop over the function descriptors appends (lines 116-129)
RECURSIVE FunctionTools(_)
FunctionTools(functions) ==
    IF functions = << >> THEN << >>
    ELSE LET function == Head(functions) IN
         IF SkipFunction(function) THEN FunctionTools(Tail(functions))
         ELSE << [type |-> "function",
                  name |-> function.name[1],
                  parameters |-> IF HasParams(function)
                                 THEN JsonLoads(function.params).value
                                 ELSE << >>,
                  description |-> function.desc] >>
              \o FunctionTools(Tail(functions))

\* model.id.startswith(prefix), for the model ids of the model
StartsWith(id, prefix) ==
    CASE prefix = "o1" -> id \in {"o1", "o1-mini", "o1-preview"}
      [] prefix = "o3" -> id \in {"o3", "o3-mini"}
      [] OTHER -> FALSE

\* `model.id in <list>` for a list imported from pygpt_net.core.types; the
\* model descriptor carries the names of the lists that hold its id
InList(model, list) == list \in model.listed

\* the remote tools appended after the function tools (lines 140-160)
RemoteTools(model, cfg, stream) ==
    LET web == IF ~InList(model, "OPENAI_REMOTE_TOOL_DISABLE_WEB_SEARCH")
                    /\ cfg.web_search
               THEN << [type |-> "web_search_preview"] >> ELSE << >>
        code == IF ~InList(model, "OPENAI_REMOTE_TOOL_DISABLE_CODE_INTERPRETER")
                     /\ cfg.code_interpreter
                THEN << [type |-> "code_interpreter",
                         container |-> [type |-> "auto"]] >> ELSE << >>
        image == IF ~InList(model, "OPENAI_REMOTE_TOOL_DISABLE_IMAGE")
                      /\ cfg.image
                 THEN IF stream
                      THEN << [type |-> "image_generation", partial_images |-> 1] >>
                      ELSE << [type |-> "image_generation"] >>
                 ELSE << >>
    IN  IF ~StartsWith(model.id, "o1") /\ ~StartsWith(model.id, "o3")
        THEN web \o code \o image
        ELSE << >>

\* the list `tools` at line 162 (lines 116-160)
Tools(cx, cfg) ==
    LET functions == FunctionTools(cx.functions)
        kept == IF InList(cx.model, "OPENAI_DISABLE_TOOLS") THEN << >> ELSE functions
    IN  kept \o RemoteTools(cx.model, cfg, cx.stream)

\* a clamp that does not floor the remainder at zero
ClampMaxTokens_NoFloor(requested, msg_tokens, model_ctx) ==
    LET max0 == IntOrZero(requested) IN
    IF max0 > 0 /\ msg_tokens + max0 > model_ctx
    THEN model_ctx - msg_tokens - 1
    ELSE max0

\* the clamp of max_tokens (lines 73 and 106-110)
ClampMaxTokens(requested, msg_tokens, model_ctx) ==
    LET max0 == IntOrZero(requested) IN
    IF max0 > 0
    THEN IF msg_tokens + max0 > model_ctx
         THEN LET m == model_ctx - msg_tokens - 1 IN IF m < 0 THEN 0 ELSE m
         ELSE max0
    ELSE max0

\* response_kwargs (lines 113, 132-134, 163-173)
ResponseKwargs(cx, cfg, prev_id) ==
    LET tools == Tools(cx, cfg)
        k1 == IF cx.model.reasoning_effort # None
              THEN [reasoning |-> [effort |-> cx.model.reasoning_effort]]
              ELSE << >>
        k2 == IF cx.model.id \notin {"o1-mini", "o1-preview"} /\ Len(tools) > 0
              THEN [tools |-> tools] ELSE << >>
        k3 == IF Truthy(prev_id) THEN [previous_response_id |-> prev_id] ELSE << >>
        k4 == IF Truthy(cx.system_prompt)
              THEN [instructions |-> cx.system_prompt] ELSE << >>
    IN  k1 @@ k2 @@ k3 @@ k4

\* the arguments of client.responses.create (lines 175-180)
CreateArgs(cx, msgs, kwargs) ==
    [input |-> msgs, model |-> cx.model.id, stream |-> cx.stream] @@ kwargs

NoRequest == << >>

NotCalled == [kind |-> "not_called"]

Raised == [kind |-> "raised"]

\* what client.responses.create can return: a stream of chunks when
\* streaming, else a reply object with an id, or a falsy value
Replies(stream) ==
    IF stream THEN {[kind |-> "stream"]}
    ELSE {[kind |-> "response", id |-> "resp_new"], [kind |-> "falsy"]}

-----------------------------------------------------------------------------
(* The calls of send that are checked: every scenario fixes the arguments, *)
(* the configuration, the clock, the token count and the fields of self.   *)

ModelIds == {"gpt-4o", "o1-mini", "o3", "o4-mini"}

ListNames == {"OPENAI_DISABLE_TOOLS",
              "OPENAI_REMOTE_TOOL_DISABLE_WEB_SEARCH",
              "OPENAI_REMOTE_TOOL_DISABLE_CODE_INTERPRETER",
              "OPENAI_REMOTE_TOOL_DISABLE_IMAGE"}

BaseModel == [id |-> "gpt-4o", ctx |-> 10, listed |-> {}, reasoning_effort |-> None,
              audio_mode |-> FALSE, image_input |-> FALSE, audio_input |-> FALSE]

BaseContext == [prompt |-> "p", stream |-> FALSE, max_tokens |-> NoneV,
                system_prompt |-> None, model |-> BaseModel,
                functions |-> << >>, history |-> << >>, fit |-> 0]

BaseConfig == [use_context |-> TRUE, native |-> TRUE, web_search |-> FALSE,
               code_interpreter |-> FALSE, image |-> FALSE]

BaseItem == [final_input |-> "q", final_output |-> "a", audio_id |-> None,
             audio_expires_ts |-> NoneV, extra |-> << >>, msg_id |-> None,
             cmds |-> << >>]

\* a fresh CtxItem
NewCtxItem == [msg_id |-> None, output |-> << >>, input_tokens |-> 0,
               output_tokens |-> 0, tool_calls |-> << >>, urls |-> NoneV,
               images |-> << >>, files |-> << >>]

BaseScenario == [context |-> BaseContext, config |-> BaseConfig, now |-> 1,
                 counted |-> 1, audio_prev_id |-> None,
                 audio_prev_expires_ts |-> NoneV, msg_id |-> None,
                 input_tokens |-> 0, prev_response_id |-> None]

\* sequences over S of length at most n
SeqUpTo(S, n) == UNION {[1..k -> S] : k \in 0..n}

GoodFunction == [name |-> Some(<< "f" >>), params |-> "{\"type\": \"object\"}",
                 desc |-> "d"]

BadJsonFunction == [name |-> Some(<< "g" >>), params |-> "{bad", desc |-> "d"]

BlankFunction == [name |-> Some(<< " " >>), params |-> "{bad", desc |-> "d"]

PlainFunction == [name |-> Some(<< "h" >>), params |-> "", desc |-> "d"]

NoneNameFunction == [name |-> NoneV, params |-> "{}", desc |-> "d"]

EmptyNameFunction == [name |-> Some(<< >>), params |-> "{bad", desc |-> "d"]

\* a descriptor without the key 'name'
MissingNameFunction == [params |-> "{}", desc |-> "d"]

Descriptors == { GoodFunction, BadJsonFunction, BlankFunction, PlainFunction,
                 NoneNameFunction, EmptyNameFunction, MissingNameFunction }

\* tool calls as stored in CtxItem.extra["tool_calls"]
CallA == [call_id |-> "c1", function |-> [name |-> "f1"]]

CallB == [call_id |-> "c2", function |-> [name |-> "f2"]]

CallNoFunction == [call_id |-> "c3"]

CallNoId == [function |-> [name |-> "f1"]]

CallNoName == [call_id |-> "c3", function |-> [arguments |-> "{}"]]

CallEmptyId == [call_id |-> "", function |-> [name |-> "f1"]]

ToolCallLists == { << >>, << CallA >>, << CallB >>, << CallA, CallB >>,
                   << CallNoFunction, CallA >>, << CallNoId >>,
                   << CallNoName, CallB >>, << CallEmptyId >> }

\* entries of CtxItem.extra["tool_output"]
ToolOutputEntries == { [cmd |-> "f1"], [cmd |-> "f2", result |-> "r2"],
                       [result |-> "r1"], [note |-> "n"],
                       [cmd |-> "f1", result |-> "r3"] }

Extras ==
    { << >> }
    \cup { [tool_calls |-> c] : c \in ToolCallLists }
    \cup { [tool_output |-> << [result |-> "r1"] >>] }
    \cup { [tool_calls |-> c, tool_output |-> o] :
              c \in ToolCallLists, o \in SeqUpTo(ToolOutputEntries, MaxOut) }

\* the tools of the request: model lists, prefixes, toggles, streaming
ToolScenarios ==
    { [BaseScenario EXCEPT
         !.context = [BaseContext EXCEPT
                        !.stream = st,
                        !.functions = f,
                        !.model = [BaseModel EXCEPT !.id = id, !.listed = l]],
         !.config = [BaseConfig EXCEPT !.web_search = w, !.code_interpreter = c,
                                       !.image = g]] :
        st \in BOOLEAN, f \in { << >>, << GoodFunction >> }, id \in ModelIds,
        l \in SUBSET ListNames, w \in BOOLEAN, c \in BOOLEAN, g \in BOOLEAN }

\* the function descriptors, the reasoning hint and the instructions
FunctionScenarios ==
    { [BaseScenario EXCEPT
         !.context = [BaseContext EXCEPT
                        !.functions = f,
                        !.system_prompt = sp,
                        !.model = [BaseModel EXCEPT !.reasoning_effort = e]]] :
        f \in { << BadJsonFunction >>, << BlankFunction, GoodFunction >>,
                << GoodFunction, BadJsonFunction >> },
        sp \in {None, "", "sys"}, e \in {None, "high"} }

\* the lists of function descriptors
DescriptorScenarios ==
    { [BaseScenario EXCEPT !.context = [BaseContext EXCEPT !.functions = f]] :
        f \in SeqUpTo(Descriptors, MaxFuncs) }

\* the clamp: token count, requested maximum, context window; and the
\* documented case 100 / 50 / 120
ClampScenarios ==
    { [BaseScenario EXCEPT
         !.counted = t,
         !.context = [BaseContext EXCEPT
                        !.max_tokens = m,
                        !.model = [BaseModel EXCEPT !.ctx = c]]] :
        t \in 0..MaxTokens, m \in {NoneV} \cup {Some(v) : v \in 0..MaxTokens},
        c \in 0..MaxTokens }
    \cup { [BaseScenario EXCEPT
              !.counted = 100,
              !.context = [BaseContext EXCEPT
                             !.max_tokens = Some(50),
                             !.model = [BaseModel EXCEPT !.ctx = 120]]] }

\* the last turn of the history: its output, tool calls and tool outputs
LastTurnScenarios ==
    { [BaseScenario EXCEPT
         !.context = [BaseContext EXCEPT
                        !.fit = 1,
                        !.history = << [BaseItem EXCEPT !.final_output = fo,
                                                        !.extra = e,
                                                        !.msg_id = m,
                                                        !.cmds = c] >>]] :
        fo \in {"", "a"}, e \in Extras, m \in {"m1"},
        c \in { << >>, << "cmd" >> } }

MatchedExtra == [tool_calls |-> << CallA >>, tool_output |-> << [result |-> "r1"] >>]

UnmatchedExtra == [tool_calls |-> << CallA >>, tool_output |-> << [note |-> "n"] >>]

\* the kinds of turn of a longer history; a turn's message id is set from
\* its position in the history
TurnKinds ==
    { [BaseItem EXCEPT !.final_input = fi, !.final_output = fo, !.extra = e,
                       !.cmds = c, !.msg_id = m] :
        fi \in {"q"}, fo \in {"a"}, e \in { << >> }, c \in { << >>, << "cmd" >> },
        m \in {None, "m"} }
    \cup
    { [BaseItem EXCEPT !.final_input = fi, !.final_output = fo, !.extra = e,
                       !.cmds = c, !.msg_id = m] :
        fi \in {"q"}, fo \in {"", "a"}, e \in { MatchedExtra },
        c \in { << "cmd" >> }, m \in {"m"} }
    \cup
    { [BaseItem EXCEPT !.final_input = fi, !.final_output = fo, !.extra = e,
                       !.cmds = c, !.msg_id = m] :
        fi \in {""}, fo \in {None}, e \in { << >> },
        c \in { << >> }, m \in {"m"} }
    \cup
    { [BaseItem EXCEPT !.final_input = fi, !.final_output = fo, !.extra = e,
                       !.cmds = c, !.msg_id = m] :
        fi \in {""}, fo \in {"a"}, e \in { UnmatchedExtra },
        c \in { << >> }, m \in {"m"} }

TurnIds == << "m1", "m2", "m3", "m4" >>

WithIds(h) ==
    [i \in 1..Len(h) |->
        IF h[i].msg_id = None THEN h[i] ELSE [h[i] EXCEPT !.msg_id = TurnIds[i]]]

Histories == { WithIds(h) : h \in SeqUpTo(TurnKinds, MaxHist) }

\* histories of several turns, fitted or not, replayed or not
HistoryScenarios ==
    { [BaseScenario EXCEPT
         !.config = [BaseConfig EXCEPT !.use_context = u, !.native = n],
         !.msg_id = "m0",
         !.context = [BaseContext EXCEPT
                        !.history = h,
                        !.fit = IF d < Len(h) THEN Len(h) - d ELSE Len(h)]] :
        u \in BOOLEAN, n \in BOOLEAN, h \in Histories, d \in {0, 1} }


\* the audio reference of a turn and of the session against the clock
AudioScenarios ==
    { [BaseScenario EXCEPT
         !.now = t,
         !.audio_prev_id = pid,
         !.audio_prev_expires_ts = pts,
         !.context = [BaseContext EXCEPT
                        !.fit = 1,
                        !.model = [BaseModel EXCEPT !.audio_mode = am],
                        !.history = << [BaseItem EXCEPT !.audio_id = aid,
                                                        !.audio_expires_ts = ats] >>]] :
        t \in 1..MaxTime, pid \in {None, "a0"},
        pts \in {NoneV, Some(1), Some(MaxTime + 1)}, am \in BOOLEAN,
        aid \in {None, "a1"},
        ats \in {NoneV} \cup {Some(v) : v \in 0..(MaxTime + 1)} }

\* an instance that served an earlier turn: its fields hold that turn's values
ReuseScenarios ==
    { [BaseScenario EXCEPT
         !.input_tokens = 7,
         !.prev_response_id = "resp_old",
         !.msg_id = mid,
         !.context = [BaseContext EXCEPT
                        !.stream = st, !.history = h, !.fit = Len(h),
                        !.model = [BaseModel EXCEPT !.image_input = ii,
                                                    !.audio_input = ai]]] :
        st \in BOOLEAN, mid \in {None, "m0"}, ii \in BOOLEAN, ai \in BOOLEAN,
        h \in { << >>, << [BaseItem EXCEPT !.msg_id = "m1"] >>,
                << [BaseItem EXCEPT !.msg_id = "m1", !.cmds = << "cmd" >>] >> } }

Scenarios ==
    ToolScenarios \cup FunctionScenarios \cup DescriptorScenarios
    \cup ClampScenarios
    \cup LastTurnScenarios \cup HistoryScenarios \cup AudioScenarios
    \cup ReuseScenarios

-----------------------------------------------------------------------------
(* The specification of one call of send *)

Idle ==
    /\ unpack_in = << >>
    /\ log = << >>
    /\ gate_in = << >>
    /\ allowed = FALSE
    /\ race = << >>

Init ==
    /\ pc = "start"
    /\ \E s \in Scenarios :
          /\ context = s.context
          /\ config = s.config
          /\ now = s.now
          /\ counted = s.counted
          /\ input_tokens = s.input_tokens
          /\ audio_prev_id = s.audio_prev_id
          /\ audio_prev_expires_ts = s.audio_prev_expires_ts
          /\ prev_response_id = s.prev_response_id
          /\ ctx = [NewCtxItem EXCEPT !.msg_id = s.msg_id]
    /\ messages = << >>
    /\ max_tokens = 0
    /\ request = NoRequest
    /\ response = NotCalled
    /\ Idle

\* send up to the call of the client (lines 71-174), no exception raised
SendPrepare ==
    /\ pc = "start"
    /\ ~FunctionsRaise(context.functions)
    /\ LET b == Build(context, config, audio_prev_id, audio_prev_expires_ts,
                      now, counted)
       IN  /\ messages' = b.messages
           /\ prev_response_id' = b.prev_response_id
           /\ input_tokens' = b.input_tokens
           /\ max_tokens' = ClampMaxTokens(context.max_tokens, counted,
                                           context.model.ctx)
           /\ request' = CreateArgs(context, b.messages,
                                    ResponseKwargs(context, config,
                                                   b.prev_response_id))
    /\ pc' = "prepared"
    /\ UNCHANGED << context, config, now, counted, audio_prev_id,
                    audio_prev_expires_ts, response, ctx, unpackVars, gateVars, raceVars >>

\* send when the loop over the function descriptors raises (KeyError at
\* line 119, json.loads at line 123): build and the clamp have run, nothing
\* after the loop has
SendRaise ==
    /\ pc = "start"
    /\ FunctionsRaise(context.functions)
    /\ LET b == Build(context, config, audio_prev_id, audio_prev_expires_ts,
                      now, counted)
       IN  /\ messages' = b.messages
           /\ prev_response_id' = b.prev_response_id
           /\ input_tokens' = b.input_tokens
           /\ max_tokens' = ClampMaxTokens(context.max_tokens, counted,
                                           context.model.ctx)
    /\ pc' = "raised"
    /\ UNCHANGED << context, config, now, counted, audio_prev_id,
                    audio_prev_expires_ts, request, response, ctx, unpackVars, gateVars, raceVars >>

\* a send that stores the reply's id nowhere
StoreMsgId_Never(c, stream, reply) == c

\* the message id send stores in the CtxItem (lines 183-184)
StoreMsgId(c, stream, reply) ==
    IF ~stream /\ reply.kind # "falsy"
    THEN [c EXCEPT !.msg_id = reply.id]
    ELSE c

\* client.responses.create returns (lines 175-186)
SendCreate ==
    /\ pc = "prepared"
    /\ \E reply \in Replies(context.stream) :
          /\ response' = reply
          /\ ctx' = StoreMsgId(ctx, context.stream, reply)
    /\ pc' = "done"
    /\ UNCHANGED << context, config, now, counted, input_tokens, audio_prev_id,
                    audio_prev_expires_ts, prev_response_id, messages,
                    max_tokens, request, unpackVars, gateVars, raceVars >>

\* client.responses.create raises: the exception leaves send (line 175)
SendCreateRaises ==
    /\ pc = "prepared"
    /\ response' = Raised
    /\ pc' = "raised"
    /\ UNCHANGED << context, config, now, counted, input_tokens, audio_prev_id,
                    audio_prev_expires_ts, prev_response_id, messages,
                    max_tokens, request, ctx, unpackVars, gateVars, raceVars >>

Next == SendPrepare \/ SendRaise \/ SendCreate \/ SendCreateRaises

Spec == Init /\ [][Next]_vars

-----------------------------------------------------------------------------
(* Vocabulary of the properties of send and build *)

\* build has returned
Built == pc \in {"prepared", "done", "raised"}

\* the request has been assembled
Prepared == pc \in {"prepared", "done"} \/ (pc = "raised" /\ response = Raised)

\* the turns build replays
Items == IF config.use_context THEN GetHistory(context.history, context.fit)
         ELSE << >>

IsOutputRecord(m) == "type" \in DOMAIN m /\ m.type = "function_call_output"

IsAssistantRecord(m) == "role" \in DOMAIN m /\ m.role = "assistant"

IsUserRecord(m) == "role" \in DOMAIN m /\ m.role = "user"

HasInput(item) == item.final_input \notin {None, ""}

HasOutput(item) == item.final_output \notin {None, ""}

OutputRecords == SelectSeq(messages, IsOutputRecord)

\* the records a replay of the turns yields besides function_call_output
ReplayedCount == Len(SelectSeq(Items, HasInput)) + Len(SelectSeq(Items, HasOutput))

FreshPrompt == [role |-> "user", content |-> PromptContent(context.prompt, context.model)]

-----------------------------------------------------------------------------
(* C1 *)

\* C1: for a model whose id is in OPENAI_DISABLE_TOOLS the request handed to
\* client.responses.create has no `tools` field or an empty one, whatever the
\* remote-tool toggles, the streaming flag and the function descriptors are.
C1_DenylistedModelSendsNoTools ==
    (Prepared /\ InList(context.model, "OPENAI_DISABLE_TOOLS"))
        => ("tools" \notin DOMAIN request \/ request.tools = << >>)

-----------------------------------------------------------------------------
(* C2 *)

\* C2: the messages build returns end with the fresh prompt record or with a
\* function_call_output record; the fresh prompt is appended exactly when
\* the replay emitted no function_call_output record, so no sequence holds
\* both a function_call_output record and the trailing fresh prompt.
C2_PromptXorToolOutput ==
    Built =>
        /\ messages # << >>
        /\ IF OutputRecords = << >>
           THEN /\ Last(messages) = FreshPrompt
                /\ Len(messages) = ReplayedCount + 1
           ELSE /\ IsOutputRecord(Last(messages))
                /\ Len(messages) = ReplayedCount + Len(OutputRecords)

\* a build whose replay emitted a function_call_output record
C2_Witness ==
    /\ pc = "done"
    /\ OutputRecords # << >>
    /\ Len(Items) = 2
    /\ IsOutputRecord(Last(messages))

-----------------------------------------------------------------------------
(* C3 *)

\* a recorded tool call that build tries to match (lines 293-297)
Matchable(extra, tool_call) ==
    /\ "function" \in DOMAIN tool_call
    /\ "call_id" \in DOMAIN tool_call
    /\ "name" \in DOMAIN tool_call.function
    /\ tool_call.call_id \notin {None, ""}
    /\ tool_call.function.name \notin {None, ""}
    /\ "tool_output" \in DOMAIN extra

\* the tool-output list holds an entry with a result and none named after
\* the tool call's function
ResultOnly(extra, tool_call) ==
    /\ \E j \in 1..Len(extra.tool_output) : "result" \in DOMAIN extra.tool_output[j]
    /\ \A j \in 1..Len(extra.tool_output) :
          ~("cmd" \in DOMAIN extra.tool_output[j]
                /\ extra.tool_output[j].cmd = tool_call.function.name)

OutputsFor(call_id) ==
    { i \in 1..Len(messages) :
        IsOutputRecord(messages[i]) /\ messages[i].call_id = call_id }

\* C3: when the final turn's tool-output list holds an entry with a result
\* and no entry named after the tool call's function, exactly one
\* function_call_output record with that call's call_id is emitted, its
\* output is that result, and the fresh prompt is not appended.
C3_ResultEntryEmitsOneOutput ==
    (Built /\ config.native /\ Items # << >>
           /\ "tool_calls" \in DOMAIN Last(Items).extra)
        => \A k \in 1..Len(Last(Items).extra.tool_calls) :
              LET extra == Last(Items).extra
                  tool_call == extra.tool_calls[k]
              IN  (Matchable(extra, tool_call) /\ ResultOnly(extra, tool_call))
                     => /\ Cardinality(OutputsFor(tool_call.call_id)) = 1
                        /\ \A i \in OutputsFor(tool_call.call_id) :
                              \E j \in 1..Len(extra.tool_output) :
                                 /\ "result" \in DOMAIN extra.tool_output[j]
                                 /\ messages[i].output = extra.tool_output[j].result
                        /\ Last(messages) # FreshPrompt

-----------------------------------------------------------------------------
(* C4 *)

\* C4: when the final replayed turn carries no tool-call metadata (also with
\* an empty history and with history replay switched off) the last entry of
\* the returned messages is the user record of the current prompt.
C4_NoToolCallsEndsWithPrompt ==
    (Built /\ (Items = << >> \/ "tool_calls" \notin DOMAIN Last(Items).extra))
        => /\ messages # << >>
           /\ Last(messages) = FreshPrompt

\* a two-turn history whose first turn has matched tool calls and whose
\* final turn has none
C4_Witness ==
    /\ pc = "done"
    /\ config.native
    /\ Len(Items) = 2
    /\ Items[1].extra = MatchedExtra
    /\ HasOutput(Items[1])
    /\ "tool_calls" \notin DOMAIN Items[2].extra
    /\ ~HasOutput(Items[2])
    /\ Last(messages) = FreshPrompt

-----------------------------------------------------------------------------
(* C5 *)

Requested == IntOrZero(context.max_tokens)

Fits == counted + Requested <= context.model.ctx

Remainder == context.model.ctx - counted - 1

\* C5 as stated: with a positive requested maximum the clamped value keeps
\* msg_tokens + max_tokens within model.ctx for every msg_tokens, requested
\* value and model.ctx and is never negative; a request that fits is kept,
\* any other becomes model.ctx - msg_tokens - 1, floored at 0.
C5_ClampAlwaysFitsWindow ==
    (Built /\ Requested > 0)
        => /\ counted + max_tokens <= context.model.ctx
           /\ max_tokens >= 0
           /\ (Fits => max_tokens = Requested)
           /\ (~Fits => max_tokens = IF Remainder < 0 THEN 0 ELSE Remainder)

\* C5 amended: with a positive requested maximum the clamped value is never
\* negative; a request that fits is kept, any other becomes
\* model.ctx - msg_tokens - 1 floored at 0 (100, 50, 120 give 19); and
\* msg_tokens + max_tokens stays within model.ctx whenever the messages
\* alone do (msg_tokens <= model.ctx).
C5_ClampFitsWindowWhenMessagesDo ==
    (Built /\ Requested > 0)
        => /\ max_tokens >= 0
           /\ (Fits => max_tokens = Requested)
           /\ (~Fits => max_tokens = IF Remainder < 0 THEN 0 ELSE Remainder)
           /\ (counted <= context.model.ctx
                  => counted + max_tokens <= context.model.ctx)
           /\ (counted > context.model.ctx => max_tokens = 0)
           /\ ((counted = 100 /\ Requested = 50 /\ context.model.ctx = 120)
                  => max_tokens = 19)

\* the documented case: 100 message tokens, 50 requested, a window of 120
C5_Witness ==
    /\ pc = "done"
    /\ counted = 100
    /\ Requested = 50
    /\ context.model.ctx = 120
    /\ max_tokens = 19

-----------------------------------------------------------------------------
(* C6 *)

\* C6 as stated: after a non-streaming send returned a reply, the reply's
\* id is held by Responses.prev_response_id.
C6_ReplyIdInPrevResponseId ==
    (pc = "done" /\ ~context.stream /\ response.kind = "response")
        => prev_response_id = response.id

\* C6 amended: when client.responses.create returns, a non-streaming send
\* that got a reply stores the reply's id in the CtxItem of the call
\* (ctx.msg_id); a streaming send, or one that got no reply, leaves the
\* CtxItem as it was; in every case Responses.prev_response_id keeps the
\* value build gave it.
C6_ReplyIdInCtxMsgId ==
    [][(pc = "prepared" /\ pc' = "done")
          => /\ prev_response_id' = prev_response_id
             /\ IF ~context.stream /\ response'.kind = "response"
                THEN ctx'.msg_id = response'.id
                ELSE ctx' = ctx]_vars

\* a non-streaming send on a used instance whose history ends with turn m1
C6_Witness ==
    /\ pc = "done"
    /\ ~context.stream
    /\ response.kind = "response"
    /\ ctx.msg_id = response.id
    /\ prev_response_id = "m1"

-----------------------------------------------------------------------------
(* C7 *)

AssistantRecords == SelectSeq(messages, IsAssistantRecord)

OutputItems == SelectSeq(Items, HasOutput)

\* an expiry timestamp that is set and strictly later than the clock
InFuture(expires_ts) == expires_ts # NoneV /\ expires_ts[1] > now

\* the audio reference a turn may send: its own when it has one, else the
\* session's
AudioRef(item) ==
    IF item.audio_id \notin {None, ""}
    THEN [id |-> item.audio_id, expires_ts |-> item.audio_expires_ts]
    ELSE [id |-> audio_prev_id, expires_ts |-> audio_prev_expires_ts]

\* C7: an assistant record carries `audio` only for an audio model and an
\* audio reference whose expiry is strictly later than the clock; the turn's
\* own audio id is the one used when it has one, the session's only when it
\* has none; an expired reference, or one with no expiry, is never sent.
C7_AudioOnlyWhenNotExpired ==
    Built =>
        /\ Len(AssistantRecords) = Len(OutputItems)
        /\ \A k \in 1..Len(AssistantRecords) :
              LET m == AssistantRecords[k]
                  ref == AudioRef(OutputItems[k])
              IN  /\ ("audio" \in DOMAIN m)
                        <=> (/\ context.model.audio_mode
                             /\ ref.id \notin {None, ""}
                             /\ InFuture(ref.expires_ts))
                  /\ ("audio" \in DOMAIN m) => m.audio = [id |-> ref.id]

\* a turn with its own, expired audio id while the session's is still valid:
\* nothing is sent
C7_Witness ==
    /\ pc = "done"
    /\ context.model.audio_mode
    /\ Len(OutputItems) = 1
    /\ OutputItems[1].audio_id = "a1"
    /\ OutputItems[1].audio_expires_ts = Some(now)
    /\ audio_prev_id = "a0"
    /\ InFuture(audio_prev_expires_ts)
    /\ "audio" \notin DOMAIN AssistantRecords[1]

-----------------------------------------------------------------------------
(* Responses.unpack_response *)

\* the Markdown code fence, three grave accents (a TLA+ string cannot hold
\* that character)
Fence == "<fence>"

CodeHeader == << "\n\n**Code interpreter**\n", Fence, "python\n" >>

CodeFooter == << "\n\n", Fence, "\n-----------\n" >>

\* code_response (lines 411-414)
CodeResponse(code, output_text) ==
    CodeHeader \o code \o CodeFooter \o Strip(output_text)

\* the local `output` (lines 373-381)
UnpackedText(mode, reply) ==
    IF mode \in {"chat", "vision", "research"} /\ reply.output_text # << >>
    THEN reply.output_text
    ELSE << >>

IsFunctionCall(o) == o.type = "function_call"

\* command.unpack_tool_calls_responses: the function calls of the reply as
\* tool-call descriptors
UnpackToolCalls(output) ==
    LET calls == SelectSeq(output, IsFunctionCall)
    IN  [i \in 1..Len(calls) |->
            [call_id |-> calls[i].call_id,
             function |-> [name |-> calls[i].name]]]

\* the loop over the annotations of one content part (lines 419-433); st
\* carries ctx and the local `files`
RECURSIVE Annotations(_, _)
Annotations(st, annotations) ==
    IF annotations = << >> THEN st
    ELSE LET annotation == Head(annotations)
             next ==
                IF annotation.type = "url_citation"
                THEN [st EXCEPT !.ctx.urls =
                         Some(Append(IF st.ctx.urls = NoneV THEN << >>
                                     ELSE st.ctx.urls[1], annotation.url))]
                ELSE IF annotation.type = "container_file_citation"
                THEN [st EXCEPT !.files =
                         Append(st.files,
                                [container_id |-> annotation.container_id,
                                 file_id |-> annotation.file_id])]
                ELSE st
         IN  Annotations(next, Tail(annotations))

\* the loop over the content parts of a message item (lines 417-419)
RECURSIVE Contents(_, _)
Contents(st, content) ==
    IF content = << >> THEN st
    ELSE Contents(Annotations(st, Head(content).annotations), Tail(content))

\* an item loop that keeps the first code block instead of the last
RECURSIVE OutputItemsLoop_FirstCode(_, _, _)
OutputItemsLoop_FirstCode(st, reply, i) ==
    IF i > Len(reply.output) THEN st
    ELSE LET output == reply.output[i]
             next ==
                IF output.type = "code_interpreter_call"
                THEN IF \E j \in 1..(i - 1) :
                           reply.output[j].type = "code_interpreter_call"
                     THEN st
                     ELSE [st EXCEPT !.ctx.output =
                              CodeResponse(output.code, reply.output_text)]
                ELSE IF output.type = "message"
                THEN Contents(st, output.content)
                ELSE st
         IN  OutputItemsLoop_FirstCode(next, reply, i + 1)

\* the loop over response.output in chat mode (lines 408-433)
RECURSIVE OutputItemsLoop(_, _, _)
OutputItemsLoop(st, reply, i) ==
    IF i > Len(reply.output) THEN st
    ELSE LET output == reply.output[i]
             next ==
                IF output.type = "code_interpreter_call"
                THEN [st EXCEPT !.ctx.output =
                         CodeResponse(output.code, reply.output_text)]
                ELSE IF output.type = "message"
                THEN Contents(st, output.content)
                ELSE st
         IN  OutputItemsLoop(next, reply, i + 1)

IsImageCall(o) == o.type = "image_generation_call"

\* unpack_response up to the download of the container files (lines
\* 373-433): the CtxItem and the local `files`
UnpackRecord(mode, reply, c) ==
    LET output == UnpackedText(mode, reply)
        c1 == [c EXCEPT
                 !.tool_calls = IF mode \in {"chat", "vision", "research"}
                                     /\ reply.output # << >>
                                THEN UnpackToolCalls(reply.output)
                                ELSE c.tool_calls,
                 !.output = IF output # << >> THEN Strip(output) ELSE << >>,
                 !.msg_id = reply.id,
                 !.input_tokens = reply.usage.input_tokens,
                 !.output_tokens = reply.usage.output_tokens]
        c2 == IF mode = "chat" /\ SelectSeq(reply.output, IsImageCall) # << >>
              THEN [c1 EXCEPT !.images = << "img_path" >>]
              ELSE c1
    IN  IF mode = "chat"
        THEN OutputItemsLoop([ctx |-> c2, files |-> << >>], reply, 1)
        ELSE [ctx |-> c2, files |-> << >>]

\* container.download_files: the downloaded files are attached to the CtxItem
DownloadFiles(c, files) == [c EXCEPT !.files = c.files \o files]

\* a download whose exception is not caught: it leaves unpack_response
DownloadRaised_Uncaught(c, l) == [ctx |-> c, log |-> l, pc |-> "raised"]

\* the handler of a download that raised (lines 440-441): the error is
\* logged and unpack_response goes on to its end
DownloadRaised(c, l) == [ctx |-> c, log |-> Append(l, "error"), pc |-> "done"]

(* The replies that are unpacked *)

CodeItems == { [type |-> "code_interpreter_call", code |-> << "print(1)" >>],
               [type |-> "code_interpreter_call", code |-> << "x", "\n" >>] }

UrlCitation == [type |-> "url_citation", url |-> "u1"]

FileCitation == [type |-> "container_file_citation", container_id |-> "cntr",
                 file_id |-> "file1"]

MessageItems ==
    { [type |-> "message", content |-> << [annotations |-> << UrlCitation >>] >>],
      [type |-> "message",
       content |-> << [annotations |-> << >>],
                      [annotations |-> << FileCitation, UrlCitation >>] >>] }

OtherItems == { [type |-> "image_generation_call", result |-> "b64"],
                [type |-> "function_call", call_id |-> "c1", name |-> "f1"] }

ReplyItems == CodeItems \cup MessageItems \cup OtherItems

\* aggregate texts of a reply, with and without surrounding whitespace
Texts == { << >>, << " " >>, << "1" >>, << "1", "\n" >>, << " ", "1", "\n" >>,
           << "1", " ", "2" >> }

UnpackScenarios ==
    { [mode |-> m,
       reply |-> [id |-> "resp_new", output_text |-> t, output |-> o,
                  usage |-> [input_tokens |-> 3, output_tokens |-> 5]]] :
        m \in {"chat", "vision", "agent"}, t \in Texts,
        o \in SeqUpTo(ReplyItems, MaxItems) }

InitUnpack ==
    /\ pc = "start"
    /\ unpack_in \in UnpackScenarios
    /\ \E u \in {NoneV, Some(<< "u0" >>)} :
          ctx = [NewCtxItem EXCEPT !.urls = u, !.msg_id = "m0"]
    /\ log = << >>
    /\ context = BaseContext
    /\ config = BaseConfig
    /\ now = 0
    /\ counted = 0
    /\ input_tokens = 0
    /\ audio_prev_id = None
    /\ audio_prev_expires_ts = NoneV
    /\ prev_response_id = None
    /\ messages = << >>
    /\ max_tokens = 0
    /\ request = NoRequest
    /\ response = NotCalled
    /\ gate_in = << >>
    /\ allowed = FALSE
    /\ race = << >>

\* unpack_response when no download is needed or the download succeeds
\* (lines 365-439)
Unpack ==
    /\ pc = "start"
    /\ LET u == UnpackRecord(unpack_in.mode, unpack_in.reply, ctx)
       IN  IF u.files # << >>
           THEN /\ ctx' = DownloadFiles(u.ctx, u.files)
                /\ log' = Append(log, "info")
           ELSE /\ ctx' = u.ctx
                /\ log' = log
    /\ pc' = "done"
    /\ UNCHANGED << sendVars, unpack_in, gateVars, raceVars >>

\* unpack_response when container.download_files raises after it attached
\* some of the files, none or all but the last: the exception is caught and
\* logged (lines 436-441)
UnpackDownloadFails ==
    /\ pc = "start"
    /\ LET u == UnpackRecord(unpack_in.mode, unpack_in.reply, ctx)
       IN  /\ u.files # << >>
           /\ \E k \in 0..(Len(u.files) - 1) :
                 LET r == DownloadRaised(
                              DownloadFiles(u.ctx, SubSeq(u.files, 1, k)),
                              Append(log, "info"))
                 IN  /\ ctx' = r.ctx
                     /\ log' = r.log
                     /\ pc' = r.pc
    /\ UNCHANGED << sendVars, unpack_in, gateVars, raceVars >>

NextUnpack == Unpack \/ UnpackDownloadFails

SpecUnpack == InitUnpack /\ [][NextUnpack]_vars

-----------------------------------------------------------------------------
(* C8 *)

Reply == unpack_in.reply

IsCodeCall(o) == o.type = "code_interpreter_call"

CodeCalls == SelectSeq(Reply.output, IsCodeCall)

\* the text the claim gives for a code block C and the reply's text
CodeBlockText(code) == CodeHeader \o code \o CodeFooter \o Strip(Reply.output_text)

\* C8 as stated: in chat mode, for a code_interpreter_call item with code C
\* among the reply's output items, the record's output is header + C +
\* footer + strip(T), whatever items precede or follow it; with no such item
\* it is strip(T).
C8_OutputEmbedsEachCode ==
    (pc = "done" /\ unpack_in.mode = "chat")
        => /\ \A k \in 1..Len(CodeCalls) :
                 ctx.output = CodeBlockText(CodeCalls[k].code)
           /\ (CodeCalls = << >> => ctx.output = Strip(Reply.output_text))

\* C8 amended: in chat mode, when the reply's output items hold
\* code_interpreter_call items, the record's output is header + C + footer
\* + strip(T) for the code C of the last of them (an earlier item's code is
\* overwritten), whatever other items precede or follow; with no such item
\* it is strip(T).
C8_OutputEmbedsLastCode ==
    (pc = "done" /\ unpack_in.mode = "chat")
        => IF CodeCalls # << >>
           THEN ctx.output = CodeBlockText(CodeCalls[Len(CodeCalls)].code)
           ELSE ctx.output = Strip(Reply.output_text)

\* two code items with different code: the record holds the second
C8_Witness ==
    /\ pc = "done"
    /\ unpack_in.mode = "chat"
    /\ Len(CodeCalls) = 2
    /\ CodeCalls[1].code = << "print(1)" >>
    /\ CodeCalls[2].code = << "x", "\n" >>
    /\ Reply.output_text = << "1", "\n" >>
    /\ ctx.output = << "\n\n**Code interpreter**\n", Fence, "python\n",
                       "x", "\n",
                       "\n\n", Fence, "\n-----------\n", "1" >>

-----------------------------------------------------------------------------
(* Responses.is_enabled *)

RESPONSES_ALLOWED_MODES == {"chat", "research", "agent", "expert"}

\* an is_enabled whose expert branch is outside the check of the modes and
\* of the global toggle
IsEnabled_ExpertOutside(g) ==
    IF g.model = NoneV THEN FALSE
    ELSE IF ~g.model[1].is_gpt THEN FALSE
    ELSE IF g.is_expert_call THEN g.experts_internal_api_use_responses
    ELSE /\ g.mode \in RESPONSES_ALLOWED_MODES
         /\ g.parent_mode \in RESPONSES_ALLOWED_MODES
         /\ g.api_use_responses
         /\ ~(g.legacy_enabled /\ ~g.agent_api_use_responses)
         /\ ~(g.experts_enabled /\ ~g.experts_api_use_responses)

\* an is_enabled whose expert branch only switches off
IsEnabled_ExpertNarrows(g) ==
    IF g.model = NoneV THEN FALSE
    ELSE IF ~g.model[1].is_gpt THEN FALSE
    ELSE /\ g.mode \in RESPONSES_ALLOWED_MODES
         /\ g.parent_mode \in RESPONSES_ALLOWED_MODES
         /\ g.api_use_responses
         /\ ~(g.legacy_enabled /\ ~g.agent_api_use_responses)
         /\ ~(g.experts_enabled /\ ~g.experts_api_use_responses)
         /\ (g.is_expert_call => g.experts_internal_api_use_responses)

\* Responses.is_enabled (lines 459-484)
IsEnabled(g) ==
    IF g.model = NoneV THEN FALSE
    ELSE IF ~g.model[1].is_gpt THEN FALSE
    ELSE IF /\ g.mode \in RESPONSES_ALLOWED_MODES
            /\ g.parent_mode \in RESPONSES_ALLOWED_MODES
            /\ g.api_use_responses
         THEN LET a0 == TRUE
                  a1 == IF g.legacy_enabled /\ ~g.agent_api_use_responses
                        THEN FALSE ELSE a0
                  a2 == IF g.experts_enabled /\ ~g.experts_api_use_responses
                        THEN FALSE ELSE a1
              IN  IF g.is_expert_call
                  THEN IF g.experts_internal_api_use_responses THEN TRUE ELSE FALSE
                  ELSE a2
         ELSE FALSE

Modes == {"chat", "research", "agent", "expert", "vision", "audio"}

GateScenarios ==
    [model : {NoneV, Some([is_gpt |-> TRUE]), Some([is_gpt |-> FALSE])},
     mode : Modes,
     parent_mode : Modes \cup {None},
     is_expert_call : BOOLEAN,
     api_use_responses : BOOLEAN,
     agent_api_use_responses : BOOLEAN,
     experts_api_use_responses : BOOLEAN,
     experts_internal_api_use_responses : BOOLEAN,
     legacy_enabled : BOOLEAN,
     experts_enabled : BOOLEAN]

InitGate ==
    /\ pc = "start"
    /\ gate_in \in GateScenarios
    /\ allowed = FALSE
    /\ unpack_in = << >>
    /\ log = << >>
    /\ ctx = NewCtxItem
    /\ context = BaseContext
    /\ config = BaseConfig
    /\ now = 0
    /\ counted = 0
    /\ input_tokens = 0
    /\ audio_prev_id = None
    /\ audio_prev_expires_ts = NoneV
    /\ prev_response_id = None
    /\ messages = << >>
    /\ max_tokens = 0
    /\ request = NoRequest
    /\ response = NotCalled
    /\ race = << >>

\* a call of is_enabled (lines 443-484)
CheckEnabled ==
    /\ pc = "start"
    /\ allowed' = IsEnabled(gate_in)
    /\ pc' = "done"
    /\ UNCHANGED << ctx, sendVars, unpackVars, gate_in, raceVars >>

NextGate == CheckEnabled

SpecGate == InitGate /\ [][NextGate]_vars

-----------------------------------------------------------------------------
(* C9 *)

\* C9: is_enabled returns False whenever api_use_responses is off, for every
\* model, mode, parent mode, expert-call flag, state of the legacy-agent and
\* experts features and value of the sub-toggles.
C9_OffWhenGlobalToggleOff ==
    (pc = "done" /\ ~gate_in.api_use_responses) => ~allowed

\* an internal expert call with its sub-toggle on and the global toggle off
C9_Witness ==
    /\ pc = "done"
    /\ ~gate_in.api_use_responses
    /\ gate_in.model = Some([is_gpt |-> TRUE])
    /\ gate_in.mode = "expert"
    /\ gate_in.parent_mode = "expert"
    /\ gate_in.is_expert_call
    /\ gate_in.experts_internal_api_use_responses
    /\ ~allowed

-----------------------------------------------------------------------------
(* C10 *)

BaseConditions ==
    /\ gate_in.model # NoneV
    /\ gate_in.model[1].is_gpt
    /\ gate_in.mode \in {"chat", "research", "agent", "expert"}
    /\ gate_in.parent_mode \in {"chat", "research", "agent", "expert"}
    /\ gate_in.api_use_responses

LegacyNarrows == gate_in.legacy_enabled /\ ~gate_in.agent_api_use_responses

ExpertsNarrows == gate_in.experts_enabled /\ ~gate_in.experts_api_use_responses

\* C10: under the base conditions, a call that is not an expert call is
\* allowed exactly when neither narrowing applies; an internal expert call is
\* allowed exactly when experts.internal.api_use_responses is on, whatever
\* the two narrowings say.
C10_NarrowingAndExpertOverride ==
    (pc = "done" /\ BaseConditions)
        => IF gate_in.is_expert_call
           THEN allowed = gate_in.experts_internal_api_use_responses
           ELSE allowed = (~LegacyNarrows /\ ~ExpertsNarrows)

\* an internal expert call allowed although both narrowings apply
C10_Witness ==
    /\ pc = "done"
    /\ BaseConditions
    /\ gate_in.is_expert_call
    /\ LegacyNarrows
    /\ ExpertsNarrows
    /\ gate_in.experts_internal_api_use_responses
    /\ allowed

-----------------------------------------------------------------------------
(* C11 *)

RECURSIVE Flatten(_)
Flatten(ss) == IF ss = << >> THEN << >> ELSE Head(ss) \o Flatten(Tail(ss))

IsMessage(o) == o.type = "message"

IsUrlCitation(a) == a.type = "url_citation"

\* the annotations of the reply's message items, in order
ReplyAnnotations ==
    LET msgs == SelectSeq(Reply.output, IsMessage)
        parts == Flatten([i \in 1..Len(msgs) |-> msgs[i].content])
    IN  Flatten([i \in 1..Len(parts) |-> parts[i].annotations])

\* the urls the reply cites, in order
CitedUrls ==
    LET cites == SelectSeq(ReplyAnnotations, IsUrlCitation)
    IN  [i \in 1..Len(cites) |-> cites[i].url]

\* the record's urls after the urls known before were extended by the cited
UrlsAfter(before) ==
    IF CitedUrls = << >> THEN before
    ELSE Some((IF before = NoneV THEN << >> ELSE before[1]) \o CitedUrls)

\* the output text of a chat reply
OutputAfter ==
    IF CodeCalls # << >> THEN CodeBlockText(CodeCalls[Len(CodeCalls)].code)
    ELSE Strip(Reply.output_text)

\* C11: in chat mode, when container.download_files raises, the failure is
\* logged and unpack_response returns normally; the record holds what was
\* set before the download: the output text, the reply's id, the token
\* counts, the cited urls and the image path.
C11_DownloadFailureKeepsRecord ==
    [][(pc = "start" /\ unpack_in.mode = "chat" /\ pc' # "start"
           /\ (Len(log') > 1 \/ pc' = "raised"))
          => /\ pc' = "done"
             /\ log' = << "info", "error" >>
             /\ ctx'.output = OutputAfter
             /\ ctx'.msg_id = Reply.id
             /\ ctx'.input_tokens = Reply.usage.input_tokens
             /\ ctx'.output_tokens = Reply.usage.output_tokens
             /\ ctx'.urls = UrlsAfter(ctx.urls)
             /\ ctx'.images = IF SelectSeq(Reply.output, IsImageCall) # << >>
                              THEN << "img_path" >> ELSE ctx.images]_vars

\* a failed download after a reply with a cited url, a cited file and an
\* image: the record holds the text, the id, both urls and the image path
C11_Witness ==
    /\ pc = "done"
    /\ unpack_in.mode = "chat"
    /\ log = << "info", "error" >>
    /\ Reply.output_text = << " ", "1", "\n" >>
    /\ ctx.output = << "1" >>
    /\ ctx.msg_id = "resp_new"
    /\ ctx.urls = Some(<< "u0", "u1" >>)
    /\ ctx.images = << "img_path" >>
    /\ ctx.files = << >>

-----------------------------------------------------------------------------
(* C12 *)

\* a name that is present, not None and not made of whitespace only
NonBlankName(function) ==
    /\ "name" \in DOMAIN function
    /\ function.name # NoneV
    /\ \E k \in 1..Len(function.name[1]) : function.name[1][k] \notin Whitespace

ValidJson == {"{}", "{\"type\": \"object\"}"}

\* a descriptor with a non-blank name and a non-empty parameter string that
\* is not JSON
HasMalformedParams(function) ==
    /\ NonBlankName(function)
    /\ function.params \notin {None, ""}
    /\ function.params \notin ValidJson

\* C12: when a function descriptor with a non-blank name has a non-empty
\* parameter string that is not valid JSON, send ends by raising:
\* client.responses.create is not called and the CtxItem keeps its message
\* id.
C12_MalformedParamsAbortSend ==
    [][(\E i \in 1..Len(context.functions) :
            HasMalformedParams(context.functions[i]))
          => /\ pc' = "raised"
             /\ request' = NoRequest
             /\ response' = NotCalled
             /\ ctx'.msg_id = ctx.msg_id]_vars

\* a send that raised on the second descriptor, after a good one
C12_Witness ==
    /\ pc = "raised"
    /\ context.functions = << GoodFunction, BadJsonFunction >>
    /\ request = NoRequest
    /\ response = NotCalled
    /\ messages # << >>

-----------------------------------------------------------------------------
(* C13 *)

\* the names of the descriptors that are not skipped, in input order
KeptNames(functions) ==
    LET kept == SelectSeq(functions, NonBlankName)
    IN  [i \in 1..Len(kept) |-> kept[i].name[1]]

IsFunctionTool(t) == t.type = "function"

\* the names of the function entries of the request's tools, in order
RequestFunctionNames ==
    LET tools == IF "tools" \in DOMAIN request THEN request.tools ELSE << >>
        fns == SelectSeq(tools, IsFunctionTool)
    IN  [i \in 1..Len(fns) |-> fns[i].name]

\* every parameter string of a descriptor that has one is valid JSON
ParamsParse(functions) ==
    \A i \in 1..Len(functions) :
        ("params" \in DOMAIN functions[i] /\ NonBlankName(functions[i]))
            => functions[i].params \in {None, ""} \cup ValidJson

\* C13: for every list of function descriptors (whose parameter strings
\* parse), a descriptor whose name is missing, None, empty or made of
\* whitespace is skipped without an error and every other descriptor yields
\* exactly one function tool entry, in input order; the model is one whose
\* tools are sent.
C13_BlankNamesSkipped ==
    (pc # "start" /\ ParamsParse(context.functions)
        /\ ~InList(context.model, "OPENAI_DISABLE_TOOLS")
        /\ context.model.id \notin {"o1-mini", "o1-preview"})
      => /\ ~(pc = "raised" /\ response = NotCalled)
         /\ Prepared => RequestFunctionNames = KeptNames(context.functions)

-----------------------------------------------------------------------------
(* Two send cycles on one Responses instance *)

Cycles == {1, 2}

\* a build that keeps the response id the instance held
ResetPrevResponseId_Keep(prev) == prev

\* build's reset of self.prev_response_id (line 213)
ResetPrevResponseId(prev) == None

\* a reset_tokens that leaves the counter as it is
ResetTokens_Keep(tokens) == tokens

\* reset_tokens (lines 353-355), called by build at line 235
ResetTokens(tokens) == 0

\* the histories of the two cycles: none, one turn with an id, one turn with
\* an id and commands but no tool output
RaceHistories ==
    { << >>,
      << [BaseItem EXCEPT !.msg_id = "a1"] >>,
      << [BaseItem EXCEPT !.msg_id = "b1"] >>,
      << [BaseItem EXCEPT !.msg_id = "c1", !.cmds = << "cmd" >>] >> }

\* the model of both cycles has the audio mode
RaceContexts ==
    { [BaseContext EXCEPT !.history = h, !.fit = Len(h),
                          !.model = [BaseModel EXCEPT !.audio_mode = TRUE]] :
        h \in RaceHistories }

\* the audio reference the instance holds when the cycles start: none, or
\* one that is still valid
RaceAudio == { [id |-> None, expires_ts |-> NoneV],
               [id |-> "a0", expires_ts |-> Some(MaxTime + 1)] }

InitRace ==
    /\ pc = "race"
    /\ \E ser \in BOOLEAN :
       \E cs \in [Cycles -> RaceContexts] :
          race = [serialized |-> ser,
                  order |-> << >>,
                  cycles |-> [t \in Cycles |->
                                 [pc |-> "start", context |-> cs[t],
                                  messages |-> << >>, request |-> NoRequest]]]
    /\ context = BaseContext
    /\ config = BaseConfig
    /\ now = 1
    /\ counted = 1
    /\ input_tokens = 0
    /\ \E a \in RaceAudio :
          /\ audio_prev_id = a.id
          /\ audio_prev_expires_ts = a.expires_ts
    /\ prev_response_id = None
    /\ messages = << >>
    /\ max_tokens = 0
    /\ request = NoRequest
    /\ response = NotCalled
    /\ ctx = NewCtxItem
    /\ unpack_in = << >>
    /\ log = << >>
    /\ gate_in = << >>
    /\ allowed = FALSE

\* the caller's serialization: a cycle starts only when no other cycle is
\* between its start and its dispatch
MayStart(t) ==
    race.serialized =>
        \A u \in Cycles \ {t} : race.cycles[u].pc \in {"start", "sent"}

\* cycle t enters build: the resets of lines 213 and 235; race.order
\* records the order in which the cycles entered build
RaceBuildReset(t) ==
    /\ pc = "race"
    /\ race.cycles[t].pc = "start"
    /\ MayStart(t)
    /\ prev_response_id' = ResetPrevResponseId(prev_response_id)
    /\ input_tokens' = ResetTokens(input_tokens)
    /\ race' = [race EXCEPT !.cycles[t].pc = "reset",
                            !.order = Append(race.order, t)]
    /\ UNCHANGED << pc, ctx, context, config, now, counted, audio_prev_id,
                    audio_prev_expires_ts, messages, max_tokens, request,
                    response, unpackVars, gateVars >>

\* cycle t replays its history and returns from build (lines 246-351): the
\* loop assigns self.prev_response_id only at a turn that qualifies
RaceBuildReplay(t) ==
    /\ pc = "race"
    /\ race.cycles[t].pc = "reset"
    /\ LET b == Build(race.cycles[t].context, config, audio_prev_id,
                      audio_prev_expires_ts, now, counted)
       IN  /\ prev_response_id' = IF b.prev_response_id # None
                                  THEN b.prev_response_id
                                  ELSE prev_response_id
           /\ input_tokens' = input_tokens + counted
           /\ race' = [race EXCEPT !.cycles[t].pc = "built",
                                   !.cycles[t].messages = b.messages]
    /\ UNCHANGED << pc, ctx, context, config, now, counted, audio_prev_id,
                    audio_prev_expires_ts, messages, max_tokens, request,
                    response, unpackVars, gateVars >>

\* cycle t assembles its request from self.prev_response_id and dispatches
\* it (lines 101-180)
RaceDispatch(t) ==
    /\ pc = "race"
    /\ race.cycles[t].pc = "built"
    /\ race' = [race EXCEPT
                  !.cycles[t].pc = "sent",
                  !.cycles[t].request =
                      CreateArgs(race.cycles[t].context, race.cycles[t].messages,
                                 ResponseKwargs(race.cycles[t].context, config,
                                                prev_response_id))]
    /\ UNCHANGED << pc, ctx, sendVars, unpackVars, gateVars >>

NextRace ==
    \E t \in Cycles : RaceBuildReset(t) \/ RaceBuildReplay(t) \/ RaceDispatch(t)

SpecRace == InitRace /\ [][NextRace]_vars

-----------------------------------------------------------------------------
(* C14 *)

\* the previous_response_id of a request, None when it has none
ChainedId(req) ==
    IF "previous_response_id" \in DOMAIN req THEN req.previous_response_id
    ELSE None

\* the id a cycle's own history chains to: that of its one turn when the
\* turn has an id and no commands
OwnChainId(cx) ==
    IF cx.history # << >> /\ cx.history[1].msg_id \notin {None, ""}
          /\ cx.history[1].cmds = << >>
    THEN cx.history[1].msg_id
    ELSE None

\* cycle t was dispatched with an id that its own history does not give
WrongChain(t) ==
    /\ race.cycles[t].pc = "sent"
    /\ ChainedId(race.cycles[t].request) # OwnChainId(race.cycles[t].context)

\* C14: when the cycles on one instance run one at a time, every request is
\* dispatched with the previous_response_id of its own history; a request
\* chained to the other cycle's history is reached only by cycles that are
\* not serialized, where the build of one runs between the build and the
\* dispatch of the other.
C14_SerializedCyclesChainOwnHistory ==
    (pc = "race" /\ race.serialized) => \A t \in Cycles : ~WrongChain(t)

\* not serialized: cycle 1, whose history ends with a1, was dispatched with
\* b1, the id of cycle 2's history
C14_Witness ==
    /\ pc = "race"
    /\ ~race.serialized
    /\ race.cycles[1].pc = "sent"
    /\ OwnChainId(race.cycles[1].context) = "a1"
    /\ OwnChainId(race.cycles[2].context) = "b1"
    /\ ChainedId(race.cycles[1].request) = "b1"
    /\ WrongChain(1)

-----------------------------------------------------------------------------
(* C15 *)

\* the entries of a tool-output list whose command name is the call's
\* function name
CmdMatches(extra, tool_call) ==
    { j \in 1..Len(extra.tool_output) :
        /\ "cmd" \in DOMAIN extra.tool_output[j]
        /\ extra.tool_output[j].cmd = tool_call.function.name }

\* C15: for each recorded tool call of the final turn (a turn with an
\* assistant output) that has a call id and a function name, at most one
\* function_call_output record is emitted, and when an entry of the turn's
\* tool-output list is named after the call's function, wherever it stands
\* in the list, the record is built from such an entry; an entry that only
\* exposes a result is used when no entry's command name matches.
C15_CmdMatchHasPriority ==
    (Built /\ config.native /\ Items # << >> /\ HasOutput(Last(Items))
           /\ "tool_calls" \in DOMAIN Last(Items).extra)
        => \A k \in 1..Len(Last(Items).extra.tool_calls) :
              LET extra == Last(Items).extra
                  tool_call == extra.tool_calls[k]
              IN  Matchable(extra, tool_call)
                     => /\ Cardinality(OutputsFor(tool_call.call_id)) <= 1
                        /\ CmdMatches(extra, tool_call) # {}
                              => \E i \in OutputsFor(tool_call.call_id) :
                                 \E j \in CmdMatches(extra, tool_call) :
                                    messages[i].output = DictStr(extra.tool_output[j])

-----------------------------------------------------------------------------
(* C16 *)

\* a replayed turn whose id build takes: it has an id and either no
\* commands or, being the last turn, a tool output that was emitted
Qualifies(i) ==
    /\ Items[i].msg_id \notin {None, ""}
    /\ \/ Items[i].cmds = << >>
       \/ (i = Len(Items) /\ OutputRecords # << >>)

Qualifying == { i \in 1..Len(Items) : Qualifies(i) }

\* C16 as stated: after build, prev_response_id is the id of the most
\* recent replayed turn when that turn has an id and either no commands or
\* a matched tool output, and is unset otherwise; never an older turn's id.
C16_MostRecentTurnOrUnset ==
    Built => IF Items # << >> /\ Qualifies(Len(Items))
             THEN prev_response_id = Last(Items).msg_id
             ELSE prev_response_id = None

\* C16 amended: after build, prev_response_id is the id of the most recent
\* replayed turn that has an id and either no commands or (for the last
\* turn) a matched tool output; this is an older turn's id when the turns
\* after it do not qualify; it is unset when no replayed turn qualifies.
C16_MostRecentQualifyingTurn ==
    Built => IF Qualifying = {}
             THEN prev_response_id = None
             ELSE \E i \in Qualifying :
                     /\ \A j \in Qualifying : j <= i
                     /\ prev_response_id = Items[i].msg_id

\* two replayed turns: the first qualifies, the last has commands and no
\* tool output; the request chains to the first turn's id
C16_Witness ==
    /\ pc = "done"
    /\ Len(Items) = 2
    /\ Qualifies(1)
    /\ ~Qualifies(2)
    /\ Items[2].msg_id = "m2"
    /\ prev_response_id = "m1"
    /\ request.previous_response_id = "m1"

-----------------------------------------------------------------------------
(* C17 *)

\* the cycle whose build is the latest, once that build has returned and
\* the cycles ran one at a time
LatestBuilt ==
    /\ pc = "race"
    /\ race.serialized
    /\ race.order # << >>
    /\ race.cycles[Last(race.order)].pc \in {"built", "sent"}

Latest == race.cycles[Last(race.order)]

HasAudio(m) == "audio" \in DOMAIN m

\* the token counter and the response id after the latest build depend on
\* that build alone
TokensAndChainOfLatest ==
    LatestBuilt => /\ input_tokens = counted
                   /\ prev_response_id = OwnChainId(Latest.context)

====
